---- MODULE Spec2Model ----
(***************************************************************************)
(* Directory Size Monitor (AutoInfraAlertApp/app.py).                      *)
(*                                                                         *)
(* Three specifications over one module:                                   *)
(*   SpecSize  parse_size / format_size applied to every text over a small *)
(*             alphabet (pure functions, inputs drawn in InitSize);        *)
(*   SpecWalk  get_directory_size applied to every small directory tree;   *)
(*   Spec      one run of main(): load_config, check_directories,          *)
(*             send_alerts / send_email, process exit.                     *)
(*                                                                         *)
(* Python integers are unbounded while the model checker's are 32 bit, so  *)
(* byte counts produced by parse_size are kept as little-endian sequences  *)
(* of base-1024 digits ("Big"); <<>> is zero and the last digit of a       *)
(* non-zero number is non-zero.  Multiplying by 1024 and dividing by 1024, *)
(* the only arithmetic parse_size and format_size do, are digit shifts.    *)
(***************************************************************************)
EXTENDS Integers, Sequences, FiniteSets, TLC

VARIABLES
    \* ---- SpecSize
    size_str,      \* the text handed to parse_size
    parsed,        \* <<result of parse_size(size_str)>>, <<>> before the call
    formatted,     \* <<result of format_size(parsed bytes)>>, <<>> before the call
    \* ---- SpecWalk
    tree,          \* the directory tree handed to get_directory_size
    walked,        \* <<result of get_directory_size(tree)>>, <<>> before the call
    \* ---- Spec
    pc,            \* position of main()
    cfgfile,       \* the configuration source as found on disk
    config,        \* result of load_config
    idx,           \* number of directory checks the loop has finished
    alerts,        \* check_directories' alerts list
    log,           \* records written through logger
    evaluated,     \* per finished check: what the loop did with it
    smtp,          \* send_email: [at, todo, connected, failed]
    smtpLog,       \* SMTP operations performed, in order
    sendAlertsCalls,
    sendEmailCalls,
    mail,          \* the message built by send_alerts
    exitStatus     \* <<process exit status>>, <<>> while running

sizeVars == <<size_str, parsed, formatted>>
walkVars == <<tree, walked>>
runVars  == <<pc, cfgfile, config, idx, alerts, log, evaluated, smtp, smtpLog,
              sendAlertsCalls, sendEmailCalls, mail, exitStatus>>
vars     == <<sizeVars, walkVars, runVars>>

NotRun == "NotRun"

\* send_email not entered
SmtpIdle == [at |-> "idle", todo |-> <<>>, connected |-> FALSE, failed |-> FALSE]

(***************************************************************************)
(* Bounds                                                                  *)
(***************************************************************************)
MaxLen == 4          \* longest text handed to parse_size in SpecSize
MaxFiles == 2        \* files listed in one directory in SpecWalk
MaxChecks == 2       \* directory sections of the configuration file in Spec

(***************************************************************************)
(* Characters.  A text is a sequence of one-character strings.             *)
(***************************************************************************)
DigitChars  == {"1", "5"}
LetterChars == {"K", "M", "G", "T", "B", "m"}
OtherChars  == {"-"}                     \* neither digit, dot nor letter
Alphabet    == DigitChars \cup {"."} \cup LetterChars \cup OtherChars

DigitVal(c) == IF c = "1" THEN 1 ELSE 5

\* str.upper() on one character
Upper(c) == IF c = "m" THEN "M" ELSE c

Base == 1024

RECURSIVE Pow10(_)
Pow10(n) == IF n = 0 THEN 1 ELSE 10 * Pow10(n - 1)

\* int() of a string of decimal digits ("" counts as 0 here; callers test
\* for emptiness where Python would raise)
RECURSIVE DecVal(_)
DecVal(s) == IF s = <<>> THEN 0
             ELSE 10 * DecVal(SubSeq(s, 1, Len(s) - 1)) + DigitVal(s[Len(s)])

(***************************************************************************)
(* Unbounded non-negative integers                                         *)
(***************************************************************************)
RECURSIVE ToBig(_)
ToBig(n) == IF n = 0 THEN <<>> ELSE <<n % Base>> \o ToBig(n \div Base)

RECURSIVE BigVal(_)
BigVal(b) == IF b = <<>> THEN 0 ELSE b[1] + Base * BigVal(Tail(b))

\* b * 1024 + c  for a digit c
BigShiftIn(b, c) == IF b = <<>> /\ c = 0 THEN <<>> ELSE <<c>> \o b

(***************************************************************************)
(* parse_size                                                              *)
(***************************************************************************)
IsDigitChar(c) == c \in DigitChars
IsAlphaChar(c) == c \in LetterChars
IsNumChar(c)   == c \in DigitChars \cup {"."}

\* str.isdigit(): non-empty and every character a digit
IsDigitStr(s) == s # <<>> /\ \A i \in 1..Len(s) : IsDigitChar(s[i])

RECURSIVE MapUpper(_)
MapUpper(s) == IF s = <<>> THEN <<>> ELSE <<Upper(Head(s))>> \o MapUpper(Tail(s))

\* ''.join(c for c in size_str if c.isdigit() or c == '.')
NumericPart(s) == SelectSeq(s, IsNumChar)
\* ''.join(c for c in size_str if c.isalpha()).upper()
UnitPart(s)    == MapUpper(SelectSeq(s, IsAlphaChar))

DotCount(s) == Cardinality({i \in 1..Len(s) : s[i] = "."})
DotPos(s)   == IF DotCount(s) = 0 THEN Len(s) + 1
               ELSE CHOOSE i \in 1..Len(s) : s[i] = "."

\* float(text) succeeds on digits with at most one dot and at least one digit
FloatOk(num) == DotCount(num) <= 1 /\ Len(num) > DotCount(num)

\* float(text) as the exact decimal  whole + frac / den
FloatOf(num) ==
    LET p    == DotPos(num)
        ipart == SubSeq(num, 1, p - 1)
        fpart == SubSeq(num, p + 1, Len(num))
    IN  [whole |-> DecVal(ipart), frac |-> DecVal(fpart), den |-> Pow10(Len(fpart))]

UnitExp(unit) ==
    CASE unit = <<"K", "B">> -> 1
      [] unit = <<"M", "B">> -> 2
      [] unit = <<"G", "B">> -> 3
      [] unit = <<"T", "B">> -> 4
      [] OTHER               -> 0       \* raise ValueError("Unknown size unit")

\* int(size * 1024 * ... * 1024), k factors: each multiplication moves one
\* base-1024 digit of the fraction into the integer part; int() drops the
\* fraction that is left.
RECURSIVE TimesBase(_, _, _, _)
TimesBase(b, frac, den, k) ==
    IF k = 0 THEN b
    ELSE TimesBase(BigShiftIn(b, (frac * Base) \div den), (frac * Base) % den, den, k - 1)

SizeError   == [ok |-> FALSE, bytes |-> <<>>]
SizeOk(b)   == [ok |-> TRUE, bytes |-> b]

parse_size(s) ==
    IF IsDigitStr(s) THEN SizeOk(ToBig(DecVal(s)))
    ELSE LET num  == NumericPart(s)
             unit == UnitPart(s)
         IN  IF ~FloatOk(num) THEN SizeError
             ELSE IF UnitExp(unit) = 0 THEN SizeError
             ELSE LET f == FloatOf(num)
                  IN  SizeOk(TimesBase(ToBig(f.whole), f.frac, f.den, UnitExp(unit)))

(***************************************************************************)
(* format_size                                                             *)
(***************************************************************************)
units == <<"B", "KB", "MB", "GB", "TB">>

\* float(size_bytes) during the loop:  int + frac, where int is a Big and
\* frac the base-1024 digits after the point, most significant first.  The
\* value is exact for size_bytes < 2^53.
\* `for unit, index in units:  if size < 1024 or unit_index == len(units) - 1:
\*  break;  size /= 1024;  unit_index += 1`
RECURSIVE ScaleLoop(_, _, _, _)
ScaleLoop(int, frac, unit_index, remaining) ==
    IF remaining = 0 \/ Len(int) <= 1 \/ unit_index = Len(units) - 1
    THEN [int |-> int, frac |-> frac, unit_index |-> unit_index]
    ELSE ScaleLoop(Tail(int), <<Head(int)>> \o frac, unit_index + 1, remaining - 1)

\* size.is_integer()
IsInteger(frac) == \A i \in 1..Len(frac) : frac[i] = 0

\* frac * m for a small m:  the integer part (carry) and the fraction left
RECURSIVE MulFrac(_, _)
MulFrac(frac, m) ==
    IF frac = <<>> THEN [carry |-> 0, digits |-> <<>>]
    ELSE LET r == MulFrac(Tail(frac), m)
             x == Head(frac) * m + r.carry
         IN  [carry |-> x \div Base, digits |-> <<x % Base>> \o r.digits]

\* how a fraction compares with one half:  -1 below, 0 equal, 1 above
CmpHalf(frac) ==
    IF frac = <<>> THEN -1
    ELSE IF Head(frac) > Base \div 2 THEN 1
    ELSE IF Head(frac) < Base \div 2 THEN -1
    ELSE IF IsInteger(Tail(frac)) THEN 0 ELSE 1

\* faulty variant: two decimals by truncation instead of rounding
HundredthsTruncated(whole, frac) == whole * 100 + MulFrac(frac, 100).carry

\* f"{size:.2f}":  size * 100 rounded to the nearest integer, ties to even
Hundredths(whole, frac) ==
    LET r    == MulFrac(frac, 100)
        down == whole * 100 + r.carry
        c    == CmpHalf(r.digits)
    IN  IF c > 0 \/ (c = 0 /\ down % 2 = 1) THEN down + 1 ELSE down

\* The rendered text  "<whole>[.<cents, two digits>] <unit>"
format_size(size_bytes) ==
    LET s     == ScaleLoop(size_bytes, <<>>, 0, Len(units))
        whole == BigVal(s.int)
        h     == Hundredths(whole, s.frac)
    IN  IF IsInteger(s.frac)
        THEN [whole |-> whole, cents |-> 0, decimals |-> 0, unit |-> units[s.unit_index + 1]]
        ELSE [whole |-> h \div 100, cents |-> h % 100, decimals |-> 2,
              unit |-> units[s.unit_index + 1]]

(***************************************************************************)
(* SpecSize: the size converter on every text of at most MaxLen characters *)
(***************************************************************************)
Texts == UNION {[1..n -> Alphabet] : n \in 0..MaxLen}

ParseSize ==
    /\ parsed = <<>>
    /\ parsed' = <<parse_size(size_str)>>
    /\ UNCHANGED <<size_str, formatted, walkVars, runVars>>

FormatSize ==
    /\ parsed # <<>>
    /\ parsed[1].ok
    /\ formatted = <<>>
    /\ formatted' = <<format_size(parsed[1].bytes)>>
    /\ UNCHANGED <<size_str, parsed, walkVars, runVars>>


IdleSize == size_str = <<>> /\ parsed = <<>> /\ formatted = <<>>
IdleWalk == tree = <<>> /\ walked = <<>>
IdleRun  ==
    /\ pc = NotRun /\ cfgfile = <<>> /\ config = <<>>
    /\ idx = 0 /\ alerts = <<>> /\ log = <<>> /\ evaluated = <<>>
    /\ smtp = SmtpIdle /\ smtpLog = <<>>
    /\ sendAlertsCalls = 0 /\ sendEmailCalls = 0 /\ mail = <<>>
    /\ exitStatus = <<>>

InitSize ==
    /\ size_str \in Texts
    /\ parsed = <<>>
    /\ formatted = <<>>
    /\ IdleWalk
    /\ IdleRun

NextSize == ParseSize \/ FormatSize

SpecSize == InitSize /\ [][NextSize]_vars

(***************************************************************************)
(* Arithmetic on Bigs, used to state the claims on the size converter      *)
(***************************************************************************)
RECURSIVE BigMulSmall(_, _, _)
BigMulSmall(a, m, carry) ==
    IF a = <<>> THEN ToBig(carry)
    ELSE LET x == a[1] * m + carry
         IN  <<x % Base>> \o BigMulSmall(Tail(a), m, x \div Base)

RECURSIVE BigAdd(_, _, _)
BigAdd(a, b, carry) ==
    IF a = <<>> /\ b = <<>> THEN ToBig(carry)
    ELSE LET x == (IF a = <<>> THEN 0 ELSE a[1]) + (IF b = <<>> THEN 0 ELSE b[1]) + carry
         IN  <<x % Base>> \o BigAdd(IF a = <<>> THEN <<>> ELSE Tail(a),
                                     IF b = <<>> THEN <<>> ELSE Tail(b), x \div Base)

RECURSIVE BigLeq(_, _)
BigLeq(a, b) ==
    IF Len(a) # Len(b) THEN Len(a) < Len(b)
    ELSE IF a = <<>> THEN TRUE
    ELSE IF a[Len(a)] # b[Len(b)] THEN a[Len(a)] < b[Len(b)]
    ELSE BigLeq(SubSeq(a, 1, Len(a) - 1), SubSeq(b, 1, Len(b) - 1))

\* a * 1024^k
BigShift(a, k) == IF a = <<>> THEN <<>> ELSE [i \in 1..k |-> 0] \o a

(***************************************************************************)
(* The two accepted shapes of a size text, stated on the text itself       *)
(***************************************************************************)
UnitNames == {<<"K", "B">>, <<"M", "B">>, <<"G", "B">>, <<"T", "B">>}

\* a decimal number immediately followed by a unit suffix, nothing else
NumberThenUnit(s, n) ==
    /\ \A i \in 1..n : IsNumChar(s[i])
    /\ FloatOk(SubSeq(s, 1, n))
    /\ \A i \in (n + 1)..Len(s) : IsAlphaChar(s[i])
    /\ MapUpper(SubSeq(s, n + 1, Len(s))) \in UnitNames

WellShaped(s) == IsDigitStr(s) \/ \E n \in 1..Len(s) : NumberThenUnit(s, n)

RECURSIVE BigDivSmall(_, _, _)
\* a \div d for a small d, by long division from the top digit (the quotient
\* may carry zero top digits)
BigDivSmall(a, d, rem) ==
    IF a = <<>> THEN <<>>
    ELSE LET cur == rem * Base + a[Len(a)]
         IN  Append(BigDivSmall(SubSeq(a, 1, Len(a) - 1), d, cur % d), cur \div d)

RECURSIVE BigNorm(_)
BigNorm(a) == IF a = <<>> \/ a[Len(a)] # 0 THEN a ELSE BigNorm(SubSeq(a, 1, Len(a) - 1))

\* the byte count a well-shaped text stands for:  the number times
\* 1024^(1..4), truncated to an integer
ImpliedBytes(s) ==
    IF IsDigitStr(s) THEN ToBig(DecVal(s))
    ELSE LET n == CHOOSE n \in 1..Len(s) : NumberThenUnit(s, n)
             f == FloatOf(SubSeq(s, 1, n))
             k == UnitExp(MapUpper(SubSeq(s, n + 1, Len(s))))
         IN  BigAdd(BigShift(ToBig(f.whole), k),
                    BigNorm(BigDivSmall(BigShift(ToBig(f.frac), k), f.den, 0)), 0)

\* C8 (as claimed): parse_size succeeds exactly on the two accepted shapes --
\* a pure integer text, or a decimal number immediately followed by one of
\* KB, MB, GB, TB in any case -- yielding the number times 1024^(0..4)
\* truncated, and rejects every other text.
C8_OnlyAcceptedShapes ==
    parsed # <<>> =>
        /\ parsed[1].ok <=> WellShaped(size_str)
        /\ parsed[1].ok => parsed[1].bytes = ImpliedBytes(size_str)

\* what does hold: every well-shaped text parses to the implied byte count
WellShapedParses ==
    (parsed # <<>> /\ WellShaped(size_str)) =>
        parsed[1].ok /\ parsed[1].bytes = ImpliedBytes(size_str)

(***************************************************************************)
(* Round trip  format_size(parse_size(s))                                  *)
(***************************************************************************)
UnitIndex(u) == CHOOSE i \in 0..(Len(units) - 1) : units[i + 1] = u

\* 2 * 100 * (numeric value of the text) * (binary multiple of its unit)
TextTimes200(t)  == BigShift(ToBig(2 * (t.whole * 100 + t.cents)), UnitIndex(t.unit))
\* 2 * 100 * bytes
BytesTimes200(b) == BigMulSmall(b, 200, 0)
\* the binary multiple of the text's unit
UnitMultiple(t)  == BigShift(<<1>>, UnitIndex(t.unit))

\* C9 (as claimed): for a valid size text s, the text format_size(parse_size(s))
\* has a numeric value which, times the binary multiple of its unit, equals
\* the byte count of s.
C9_RoundTripExact ==
    (formatted # <<>> /\ WellShaped(size_str)) =>
        TextTimes200(formatted[1]) = BytesTimes200(parsed[1].bytes)

\* C9 (amended): the unit is the one reached by dividing by 1024 until the
\* value is below 1024 or the unit is TB; a whole scaled value is rendered
\* without decimals and the round trip is then exact; any other value is
\* rendered with two decimals and the round trip is off by at most half a
\* hundredth of the unit.
C9_RoundTripRounded ==
    (formatted # <<>> /\ WellShaped(size_str)) =>
        LET t == formatted[1]
            b == parsed[1].bytes
            k == UnitIndex(t.unit)
        IN  /\ k = (IF Len(b) = 0 THEN 0 ELSE IF Len(b) > Len(units) THEN Len(units) - 1
                    ELSE Len(b) - 1)
            /\ t.decimals \in {0, 2}
            /\ t.decimals = 0 <=> (\A i \in 1..k : b[i] = 0)
            /\ t.decimals = 0 => TextTimes200(t) = BytesTimes200(b)
            /\ BigLeq(TextTimes200(t), BigAdd(BytesTimes200(b), UnitMultiple(t), 0))
            /\ BigLeq(BytesTimes200(b), BigAdd(TextTimes200(t), UnitMultiple(t), 0))

\* a valid text whose byte count is not a whole number of hundredths of its
\* unit has been parsed and formatted
C9_Witness ==
    /\ formatted # <<>>
    /\ WellShaped(size_str)
    /\ formatted[1].decimals = 2
    /\ TextTimes200(formatted[1]) # BytesTimes200(parsed[1].bytes)

(***************************************************************************)
(* get_directory_size                                                      *)
(*                                                                         *)
(* A tree is  [dirs, fault].  dirs lists the directories, root first; each *)
(* is [parent, listable, files] with parent the index of the directory     *)
(* holding it (0 for the root).  listable is whether os.scandir succeeds   *)
(* on it: os.walk is called without onerror, so a directory whose listing  *)
(* fails (it was removed, or may not be read) is passed over silently and  *)
(* nothing below it is yielded.  A file is [size, islink, stat_ok]: size   *)
(* is what os.path.getsize would return (for a link, its target's size).   *)
(* fault is an exception other than a listing OSError leaving os.walk.     *)
(***************************************************************************)
FileKinds ==
    { [size |-> 1,    islink |-> FALSE, stat_ok |-> TRUE],
      [size |-> 1000, islink |-> TRUE,  stat_ok |-> TRUE],
      [size |-> 30,   islink |-> FALSE, stat_ok |-> FALSE] }

\* the directories os.walk yields: listable, and held by a yielded directory
RECURSIVE Yielded(_, _)
Yielded(dirs, d) ==
    /\ dirs[d].listable
    /\ dirs[d].parent = 0 \/ Yielded(dirs, dirs[d].parent)

\* faulty variant: os.path.islink is not consulted, a link counts its target's size
RECURSIVE SumFilesFollowLinks(_, _)
SumFilesFollowLinks(files, acc) ==
    IF files = <<>> THEN acc
    ELSE LET f == Head(files)
         IN  IF f.stat_ok
             THEN SumFilesFollowLinks(Tail(files), [acc EXCEPT !.total = @ + f.size])
             ELSE SumFilesFollowLinks(Tail(files), [acc EXCEPT !.warnings = @ + 1])

\* `for filename in filenames:` of one yielded directory
RECURSIVE SumFiles(_, _)
SumFiles(files, acc) ==
    IF files = <<>> THEN acc
    ELSE LET f == Head(files)
         IN  IF f.islink THEN SumFiles(Tail(files), acc)
             ELSE IF f.stat_ok
                  THEN SumFiles(Tail(files),
                                [acc EXCEPT !.total = @ + f.size])
                  \* except (OSError, FileNotFoundError): logger.warning
                  ELSE SumFiles(Tail(files),
                                [acc EXCEPT !.warnings = @ + 1])

\* `for dirpath, dirnames, filenames in os.walk(directory):`
RECURSIVE WalkDirs(_, _, _)
WalkDirs(dirs, d, acc) ==
    IF d > Len(dirs) THEN acc
    ELSE IF Yielded(dirs, d) THEN WalkDirs(dirs, d + 1, SumFiles(dirs[d].files, acc))
    ELSE WalkDirs(dirs, d + 1, acc)

get_directory_size(t) ==
    IF t.fault
    THEN [raised |-> TRUE, total |-> 0, warnings |-> 0]   \* logger.error; raise
    ELSE WalkDirs(t.dirs, 1, [raised |-> FALSE, total |-> 0, warnings |-> 0])

(***************************************************************************)
(* SpecWalk: get_directory_size on every tree within the bounds            *)
(***************************************************************************)
FileLists == UNION {[1..n -> FileKinds] : n \in 0..MaxFiles}

\* the directory structures drawn: a root alone, a root with one
\* subdirectory, and either of the two failing to list
DirShapes ==
    { <<[parent |-> 0, listable |-> TRUE]>>,
      <<[parent |-> 0, listable |-> FALSE]>>,
      <<[parent |-> 0, listable |-> TRUE],  [parent |-> 1, listable |-> TRUE]>>,
      <<[parent |-> 0, listable |-> TRUE],  [parent |-> 1, listable |-> FALSE]>>,
      <<[parent |-> 0, listable |-> FALSE], [parent |-> 1, listable |-> TRUE]>> }

\* every way of filling a structure with files; a directory that cannot be
\* listed is drawn without files of its own
FilesFor(shape) ==
    { fs \in [1..Len(shape) -> FileLists] :
        \A d \in 1..Len(shape) : ~shape[d].listable => fs[d] = <<>> }

TreeOf(shape, fs, fault) ==
    [dirs |-> [d \in 1..Len(shape) |->
                 [parent |-> shape[d].parent, listable |-> shape[d].listable,
                  files |-> fs[d]]],
     fault |-> fault]

\* a fault is drawn on the trees of a root alone
Trees ==
    UNION { {TreeOf(shape, fs, FALSE) : fs \in FilesFor(shape)} : shape \in DirShapes }
    \cup { TreeOf(<<[parent |-> 0, listable |-> TRUE]>>, <<fl>>, TRUE) : fl \in FileLists }

Walk ==
    /\ walked = <<>>
    /\ walked' = <<get_directory_size(tree)>>
    /\ UNCHANGED <<tree, sizeVars, runVars>>

InitWalk ==
    /\ tree \in Trees
    /\ walked = <<>>
    /\ IdleSize
    /\ IdleRun

NextWalk == Walk

SpecWalk == InitWalk /\ [][NextWalk]_vars

\* the files of the directories the traversal lists, directory after directory
RECURSIVE ListedFiles(_, _)
ListedFiles(dirs, d) ==
    IF d > Len(dirs) THEN <<>>
    ELSE (IF Yielded(dirs, d) THEN dirs[d].files ELSE <<>>) \o ListedFiles(dirs, d + 1)

\* sum of the sizes of the files at the indices in I
RECURSIVE SumOver(_, _)
SumOver(files, I) ==
    IF I = {} THEN 0
    ELSE LET i == CHOOSE i \in I : TRUE
         IN  files[i].size + SumOver(files, I \ {i})

\* C6: get_directory_size returns exactly the sum of the sizes of the listed
\* files that are not symbolic links and whose size retrieval succeeds; a
\* symbolic link adds nothing, a file whose size retrieval fails adds zero
\* (one warning each) and does not stop the traversal.
C6_SumOfRegularFiles ==
    (walked # <<>> /\ ~tree.fault) =>
        LET files == ListedFiles(tree.dirs, 1)
        IN  /\ ~walked[1].raised
            /\ walked[1].total =
                 SumOver(files, {i \in 1..Len(files) : ~files[i].islink /\ files[i].stat_ok})
            /\ walked[1].warnings =
                 Cardinality({i \in 1..Len(files) : ~files[i].islink /\ ~files[i].stat_ok})

\* a tree holding a symbolic link and a file whose size retrieval fails, both
\* ahead of a regular file, has been sized
C6_Witness ==
    /\ walked # <<>>
    /\ ~tree.fault
    /\ LET files == ListedFiles(tree.dirs, 1)
       IN  \E i, j, k \in 1..Len(files) :
              /\ i < k /\ j < k
              /\ files[i].islink
              /\ ~files[j].islink /\ ~files[j].stat_ok
              /\ ~files[k].islink /\ files[k].stat_ok
    /\ walked[1].total > 0

(***************************************************************************)
(* load_config                                                             *)
(*                                                                         *)
(* The configuration source is  [readable, wellformed, directories,        *)
(* sections, email_keys, smtp_keys, recipients, username, password,        *)
(* use_tls]:  directories lists the `directory:<name>` sections in file    *)
(* order, each [keys, threshold]; sections, email_keys and smtp_keys say   *)
(* which of the other sections and keys the file holds.  The n-th          *)
(* directory section has name n and path n.                                *)
(***************************************************************************)
RequiredDirKeys == {"path", "threshold"}

\* faulty variant: the password is read with .get(), so a file without it loads
RequiredSmtpKeysNoPassword == {"host", "port", "username"}

RequiredSmtpKeys == {"host", "port", "username", "password"}

ConfigError == [raised |-> TRUE]

load_config(file) ==
    \* config.read() passes over a file it cannot open: no section is seen
    LET seen == file.readable
    IN  IF seen /\ ~file.wellformed THEN ConfigError      \* configparser.Error
        ELSE IF seen /\ \E i \in 1..Len(file.directories) :
                          ~(RequiredDirKeys \subseteq file.directories[i].keys)
             THEN ConfigError                              \* KeyError
        ELSE IF ~seen \/ "email" \notin file.sections
                      \/ "recipients" \notin file.email_keys
             THEN ConfigError                              \* KeyError
        ELSE IF "smtp" \notin file.sections \/ ~(RequiredSmtpKeys \subseteq file.smtp_keys)
             THEN ConfigError                              \* KeyError
        ELSE [raised |-> FALSE,
              directories |-> [i \in 1..Len(file.directories) |->
                                 [name |-> i, path |-> i,
                                  threshold |-> file.directories[i].threshold]],
              recipients |-> file.recipients,
              smtp |-> [username |-> file.username,
                        password |-> file.password,
                        \* config['smtp'].get('use_tls', 'False')
                        use_tls |-> IF "use_tls" \in file.smtp_keys THEN file.use_tls
                                    ELSE "False"]]

(***************************************************************************)
(* Log records                                                             *)
(***************************************************************************)
Log(level, event, about) == [level |-> level, event |-> event, about |-> about]

RECURSIVE Repeat(_, _)
Repeat(x, n) == IF n = 0 THEN <<>> ELSE <<x>> \o Repeat(x, n - 1)

(***************************************************************************)
(* check_directories: one pass of the loop body                            *)
(***************************************************************************)
\* faulty variant: the comparison admits equality
ExceedsOrEqual(dir_size, threshold_bytes) == BigLeq(threshold_bytes, ToBig(dir_size))

\* dir_size > threshold_bytes
Exceeds(dir_size, threshold_bytes) == ~BigLeq(ToBig(dir_size), threshold_bytes)

\* dc is the directory's configuration, st the state of its path on disk:
\* [exists, tree], exists being the answer of os.path.exists and tree what
\* the walk that follows finds.
CheckOne(dc, st) ==
    IF ~st.exists
    THEN [outcome |-> "skipped", alert |-> <<>>,
          logs |-> <<Log("WARNING", "does not exist", dc.name)>>]
    ELSE LET sz      == get_directory_size(st.tree)
             th      == parse_size(dc.threshold)
             checking == <<Log("INFO", "Checking directory", dc.name)>>
         IN  IF sz.raised
             THEN [outcome |-> "error", alert |-> <<>>,
                   logs |-> checking \o
                            <<Log("ERROR", "Error calculating directory size", dc.name),
                              Log("ERROR", "Error checking directory", dc.name)>>]
             ELSE LET sized == checking \o
                               Repeat(Log("WARNING", "Could not get size", dc.name),
                                      sz.warnings)
                  IN  IF ~th.ok
                      THEN [outcome |-> "error", alert |-> <<>>,
                            logs |-> sized \o
                                     <<Log("ERROR", "Error parsing size string", dc.name),
                                       Log("ERROR", "Error checking directory", dc.name)>>]
                      ELSE IF Exceeds(sz.total, th.bytes)
                      THEN [outcome |-> "alert",
                            alert |-> <<[name |-> dc.name, path |-> dc.path,
                                         size |-> sz.total,
                                         threshold |-> BigVal(th.bytes)]>>,
                            logs |-> sized \o
                                     <<Log("WARNING", "exceeds threshold", dc.name)>>]
                      ELSE [outcome |-> "ok", alert |-> <<>>, logs |-> sized]

(***************************************************************************)
(* send_alerts / send_email                                                *)
(***************************************************************************)
\* the message body: one entry per alert, sizes rendered by format_size
AlertEntry(alert) ==
    [name |-> alert.name, path |-> alert.path,
     current_size |-> format_size(ToBig(alert.size)),
     threshold |-> format_size(ToBig(alert.threshold)),
     exceeded_by |-> format_size(ToBig(alert.size - alert.threshold))]

\* faulty variant: the message is built from the first alert alone
AlertMessageFirstOnly(alertList, recipients) ==
    [to |-> recipients, entries |-> <<AlertEntry(alertList[1])>>]

AlertMessage(alertList, recipients) ==
    [to |-> recipients,
     entries |-> [i \in 1..Len(alertList) |-> AlertEntry(alertList[i])]]

\* faulty variant: authentication ahead of the TLS upgrade
SessionPlanLoginFirst(smtp_config) ==
    (IF smtp_config.username # "" /\ smtp_config.password # ""
     THEN <<"login">> ELSE <<>>)
    \o (IF smtp_config.use_tls \in {"true", "True", "TRUE"} THEN <<"starttls">> ELSE <<>>)
    \o <<"send_message">>

\* the operations of the `with smtplib.SMTP(...) as server:` block, in order
SessionPlan(smtp_config) ==
    \* smtp_config.get('use_tls', 'False').lower() == 'true'
    (IF smtp_config.use_tls \in {"true", "True", "TRUE"} THEN <<"starttls">> ELSE <<>>)
    \o (IF smtp_config.username # "" /\ smtp_config.password # ""
        THEN <<"login">> ELSE <<>>)
    \o <<"send_message">>

Op(op, ok, to) == [op |-> op, ok |-> ok, to |-> to]

(***************************************************************************)
(* Spec: one run of main()                                                 *)
(***************************************************************************)
ThresholdTexts == { <<"5">>, <<"1", "K", "B">>, <<"1", "K">> }

DirSections == UNION {[1..n -> [keys : {RequiredDirKeys}, threshold : ThresholdTexts]] :
                        n \in 0..MaxChecks}

\* configuration files that hold every section and key
CompleteFiles ==
    [readable : {TRUE}, wellformed : {TRUE},
     directories : DirSections,
     sections : {{"email", "smtp"}},
     email_keys : {{"recipients"}},
     smtp_keys : {RequiredSmtpKeys, RequiredSmtpKeys \cup {"use_tls"}},
     recipients : {<<"ops", "dev">>},
     username : {"", "user"},
     password : {"", "secret"},
     use_tls : {"True", "false"}]

Defects == {"none", "unreadable", "malformed", "dir_no_path", "dir_no_threshold",
            "no_email", "no_recipients", "no_smtp",
            "no_host", "no_port", "no_username", "no_password"}

DropDirKey(file, k) ==
    [file EXCEPT !.directories[Len(file.directories)].keys = @ \ {k}]

Damage(file, defect) ==
    CASE defect = "none"             -> file
      [] defect = "unreadable"       -> [file EXCEPT !.readable = FALSE]
      [] defect = "malformed"        -> [file EXCEPT !.wellformed = FALSE]
      [] defect = "dir_no_path"      -> DropDirKey(file, "path")
      [] defect = "dir_no_threshold" -> DropDirKey(file, "threshold")
      [] defect = "no_email"         -> [file EXCEPT !.sections = @ \ {"email"}]
      [] defect = "no_recipients"    -> [file EXCEPT !.email_keys = {}]
      [] defect = "no_smtp"          -> [file EXCEPT !.sections = @ \ {"smtp"}]
      [] defect = "no_host"          -> [file EXCEPT !.smtp_keys = @ \ {"host"}]
      [] defect = "no_port"          -> [file EXCEPT !.smtp_keys = @ \ {"port"}]
      [] defect = "no_username"      -> [file EXCEPT !.smtp_keys = @ \ {"username"}]
      [] defect = "no_password"      -> [file EXCEPT !.smtp_keys = @ \ {"password"}]

ConfigFiles ==
    { Damage(f, d) : f \in CompleteFiles,
                     d \in {x \in Defects : x \in {"dir_no_path", "dir_no_threshold"}
                                              => MaxChecks > 0} }

\* states of a configured path on disk when its check runs
File(kind) == CHOOSE f \in FileKinds : f.size = kind
OneDir(listable, files) ==
    <<[parent |-> 0, listable |-> listable, files |-> files]>>
FsStates ==
    { [exists |-> FALSE, tree |-> [dirs |-> OneDir(FALSE, <<>>), fault |-> FALSE]],
      \* 5 bytes
      [exists |-> TRUE,
       tree |-> [dirs |-> OneDir(TRUE, Repeat(File(1), 5)), fault |-> FALSE]],
      \* 6 bytes, next to a link and a file that cannot be sized
      [exists |-> TRUE,
       tree |-> [dirs |-> OneDir(TRUE, <<File(1000), File(30)>> \o Repeat(File(1), 6)),
                 fault |-> FALSE]],
      \* removed after the probe, or not readable: the listing fails
      [exists |-> TRUE,
       tree |-> [dirs |-> OneDir(FALSE, Repeat(File(1), 6)), fault |-> FALSE]],
      \* the walk raises
      [exists |-> TRUE,
       tree |-> [dirs |-> OneDir(TRUE, Repeat(File(1), 6)), fault |-> TRUE]] }

Init ==
    /\ pc = "start"
    /\ cfgfile \in {<<f>> : f \in ConfigFiles}
    /\ config = <<>>
    /\ idx = 0
    /\ alerts = <<>>
    /\ log = <<>>
    /\ evaluated = <<>>
    /\ smtp = SmtpIdle
    /\ smtpLog = <<>>
    /\ sendAlertsCalls = 0
    /\ sendEmailCalls = 0
    /\ mail = <<>>
    /\ exitStatus = <<>>
    /\ IdleSize
    /\ IdleWalk

\* main(), up to the return of load_config
LoadConfig ==
    /\ pc = "start"
    /\ LET r       == load_config(cfgfile[1])
           started == <<Log("INFO", "Starting directory size monitor", 0),
                        Log("INFO", "Loading configuration", 0)>>
       IN  IF r.raised
           THEN /\ log' = log \o started \o
                          <<Log("ERROR", "Error loading configuration", 0),
                            Log("ERROR", "Program error", 0)>>
                /\ exitStatus' = <<1>>              \* sys.exit(1)
                /\ pc' = "exited"
                /\ UNCHANGED config
           ELSE /\ log' = log \o started
                /\ config' = <<r>>
                /\ pc' = "check"
                /\ UNCHANGED exitStatus
    /\ UNCHANGED <<cfgfile, idx, alerts, evaluated, smtp, smtpLog, sendAlertsCalls,
                   sendEmailCalls, mail, sizeVars, walkVars>>

\* faulty variant: an error of one check leaves check_directories and reaches main
CheckDirectoryUncontained ==
    /\ pc = "check"
    /\ idx < Len(config[1].directories)
    /\ \E st \in FsStates :
         LET dc == config[1].directories[idx + 1]
             r  == CheckOne(dc, st)
         IN  /\ alerts' = alerts \o r.alert
             /\ log' = log \o r.logs
             /\ evaluated' = Append(evaluated, [name |-> dc.name, threshold |-> dc.threshold,
                                                fs |-> st, outcome |-> r.outcome])
             /\ IF r.outcome = "error"
                THEN pc' = "exited" /\ exitStatus' = <<1>>
                ELSE UNCHANGED <<pc, exitStatus>>
    /\ idx' = idx + 1
    /\ UNCHANGED <<cfgfile, config, smtp, smtpLog, sendAlertsCalls,
                   sendEmailCalls, mail, sizeVars, walkVars>>

\* check_directories: the loop body, for the next configured directory
CheckDirectory ==
    /\ pc = "check"
    /\ idx < Len(config[1].directories)
    /\ \E st \in FsStates :
         LET dc == config[1].directories[idx + 1]
             r  == CheckOne(dc, st)
         IN  /\ alerts' = alerts \o r.alert
             /\ log' = log \o r.logs
             /\ evaluated' = Append(evaluated, [name |-> dc.name, threshold |-> dc.threshold,
                                                fs |-> st, outcome |-> r.outcome])
    /\ idx' = idx + 1
    /\ UNCHANGED <<pc, cfgfile, config, smtp, smtpLog, sendAlertsCalls,
                   sendEmailCalls, mail, exitStatus, sizeVars, walkVars>>

\* check_directories after the loop, `if alerts:` false
NoAlerts ==
    /\ pc = "check"
    /\ idx = Len(config[1].directories)
    /\ alerts = <<>>
    /\ pc' = "finish"
    /\ UNCHANGED <<cfgfile, config, idx, alerts, log, evaluated, smtp, smtpLog,
                   sendAlertsCalls, sendEmailCalls, mail, exitStatus, sizeVars, walkVars>>

\* check_directories after the loop, `if alerts:` true: send_alerts builds the
\* message and enters send_email
SendAlerts ==
    /\ pc = "check"
    /\ idx = Len(config[1].directories)
    /\ alerts # <<>>
    /\ sendAlertsCalls' = sendAlertsCalls + 1
    /\ sendEmailCalls' = sendEmailCalls + 1
    /\ mail' = <<AlertMessage(alerts, config[1].recipients)>>
    /\ smtp' = [at |-> "connect", todo |-> SessionPlan(config[1].smtp),
                connected |-> FALSE, failed |-> FALSE]
    /\ pc' = "send_email"
    /\ UNCHANGED <<cfgfile, config, idx, alerts, log, evaluated, smtpLog,
                   exitStatus, sizeVars, walkVars>>

\* smtplib.SMTP(host, int(port))
SmtpConnect ==
    /\ pc = "send_email"
    /\ smtp.at = "connect"
    /\ \E ok \in BOOLEAN :
         /\ smtpLog' = Append(smtpLog, Op("connect", ok, <<>>))
         /\ smtp' = IF ok THEN [smtp EXCEPT !.at = "session", !.connected = TRUE]
                    ELSE [smtp EXCEPT !.at = "raise", !.failed = TRUE]
    /\ UNCHANGED <<pc, cfgfile, config, idx, alerts, log, evaluated, sendAlertsCalls,
                   sendEmailCalls, mail, exitStatus, sizeVars, walkVars>>

\* The operations of the with block; a failure of one leaves the block.

\* server.starttls()
SmtpStartTLS ==
    /\ pc = "send_email"
    /\ smtp.at = "session"
    /\ smtp.todo # <<>>
    /\ Head(smtp.todo) = "starttls"
    /\ \E ok \in BOOLEAN :
         /\ smtpLog' = Append(smtpLog, Op("starttls", ok, <<>>))
         /\ smtp' = IF ok THEN [smtp EXCEPT !.todo = Tail(@)]
                    ELSE [smtp EXCEPT !.at = "exit_with", !.failed = TRUE]
    /\ UNCHANGED <<pc, cfgfile, config, idx, alerts, log, evaluated, sendAlertsCalls,
                   sendEmailCalls, mail, exitStatus, sizeVars, walkVars>>

\* server.login(username, password)
SmtpLogin ==
    /\ pc = "send_email"
    /\ smtp.at = "session"
    /\ smtp.todo # <<>>
    /\ Head(smtp.todo) = "login"
    /\ \E ok \in BOOLEAN :
         /\ smtpLog' = Append(smtpLog, Op("login", ok, <<>>))
         /\ smtp' = IF ok THEN [smtp EXCEPT !.todo = Tail(@)]
                    ELSE [smtp EXCEPT !.at = "exit_with", !.failed = TRUE]
    /\ UNCHANGED <<pc, cfgfile, config, idx, alerts, log, evaluated, sendAlertsCalls,
                   sendEmailCalls, mail, exitStatus, sizeVars, walkVars>>

\* server.send_message(msg): to the addresses of the To header
SmtpSendMessage ==
    /\ pc = "send_email"
    /\ smtp.at = "session"
    /\ smtp.todo # <<>>
    /\ Head(smtp.todo) = "send_message"
    /\ \E ok \in BOOLEAN :
         /\ smtpLog' = Append(smtpLog, Op("send_message", ok, mail[1].to))
         /\ smtp' = IF ok THEN [smtp EXCEPT !.todo = Tail(@)]
                    ELSE [smtp EXCEPT !.at = "exit_with", !.failed = TRUE]
    /\ UNCHANGED <<pc, cfgfile, config, idx, alerts, log, evaluated, sendAlertsCalls,
                   sendEmailCalls, mail, exitStatus, sizeVars, walkVars>>

\* leaving the with block, normally or by an exception: SMTP.__exit__ closes
\* the connection
SmtpRelease ==
    /\ pc = "send_email"
    /\ \/ smtp.at = "session" /\ smtp.todo = <<>>
       \/ smtp.at = "exit_with"
    /\ smtpLog' = Append(smtpLog, Op("close", TRUE, <<>>))
    /\ smtp' = [smtp EXCEPT !.at = IF smtp.failed THEN "raise" ELSE "return",
                            !.connected = FALSE]
    /\ UNCHANGED <<pc, cfgfile, config, idx, alerts, log, evaluated, sendAlertsCalls,
                   sendEmailCalls, mail, exitStatus, sizeVars, walkVars>>

\* faulty variant: send_alerts lets the failure of send_email through to main
SendEmailReturnsPropagating ==
    /\ pc = "send_email"
    /\ smtp.at \in {"return", "raise"}
    /\ IF smtp.at = "raise"
       THEN /\ log' = log \o <<Log("ERROR", "Failed to send email notification", 0),
                               Log("ERROR", "Program error", 0)>>
            /\ pc' = "exited"
            /\ exitStatus' = <<1>>
       ELSE /\ log' = Append(log, Log("INFO", "Email notification sent", 0))
            /\ pc' = "finish"
            /\ UNCHANGED exitStatus
    /\ smtp' = [smtp EXCEPT !.at = "done"]
    /\ UNCHANGED <<cfgfile, config, idx, alerts, evaluated, smtpLog, sendAlertsCalls,
                   sendEmailCalls, mail, sizeVars, walkVars>>

\* send_email returns or raises; send_alerts catches what it raises
SendEmailReturns ==
    /\ pc = "send_email"
    /\ smtp.at \in {"return", "raise"}
    /\ log' = IF smtp.at = "raise"
              THEN log \o <<Log("ERROR", "Failed to send email notification", 0),
                            Log("ERROR", "Failed to send alerts", 0)>>
              ELSE Append(log, Log("INFO", "Email notification sent", 0))
    /\ smtp' = [smtp EXCEPT !.at = "done"]
    /\ pc' = "finish"
    /\ UNCHANGED <<cfgfile, config, idx, alerts, evaluated, smtpLog, sendAlertsCalls,
                   sendEmailCalls, mail, exitStatus, sizeVars, walkVars>>

\* main() after check_directories returned
Finish ==
    /\ pc = "finish"
    /\ log' = Append(log, Log("INFO", "Directory size check completed successfully", 0))
    /\ exitStatus' = <<0>>
    /\ pc' = "exited"
    /\ UNCHANGED <<cfgfile, config, idx, alerts, evaluated, smtp, smtpLog,
                   sendAlertsCalls, sendEmailCalls, mail, sizeVars, walkVars>>

Next ==
    \/ LoadConfig
    \/ CheckDirectory
    \/ NoAlerts
    \/ SendAlerts
    \/ SmtpConnect
    \/ SmtpStartTLS
    \/ SmtpLogin
    \/ SmtpSendMessage
    \/ SmtpRelease
    \/ SendEmailReturns
    \/ Finish

Spec == Init /\ [][Next]_vars

(***************************************************************************)
(* Claims on the run                                                       *)
(***************************************************************************)
Loaded == config # <<>>

ErrorsAbout(n) == {k \in 1..Len(log) : log[k].level = "ERROR" /\ log[k].about = n}

AlertsOf(n) == {j \in 1..Len(alerts) : alerts[j].name = n}

Ops(op) == {k \in 1..Len(smtpLog) : smtpLog[k].op = op}

\* C1: a check yields an alert if and only if its path exists, sizing and
\* threshold parsing both succeed, and the size is strictly above the
\* threshold; the alert carries that size and threshold; a check on a path
\* that does not exist yields no alert and logs no error.
C1_AlertIffExceeds ==
    \A i \in 1..Len(evaluated) :
        LET e    == evaluated[i]
            sz   == get_directory_size(e.fs.tree)
            th   == parse_size(e.threshold)
            cond == /\ e.fs.exists
                    /\ ~sz.raised
                    /\ th.ok
                    /\ sz.total > BigVal(th.bytes)
        IN  /\ Cardinality(AlertsOf(e.name)) = IF cond THEN 1 ELSE 0
            /\ \A j \in AlertsOf(e.name) :
                  /\ alerts[j].size = sz.total
                  /\ alerts[j].threshold = BigVal(th.bytes)
                  /\ alerts[j].size > alerts[j].threshold
            /\ ~e.fs.exists => ErrorsAbout(e.name) = {} /\ e.outcome = "skipped"

\* one check found its directory exactly at the threshold and raised no
\* alert, another found it one byte over and raised one
C1_Witness ==
    \E i, j \in 1..Len(evaluated) :
        /\ evaluated[i].fs.exists
        /\ ~get_directory_size(evaluated[i].fs.tree).raised
        /\ parse_size(evaluated[i].threshold).ok
        /\ get_directory_size(evaluated[i].fs.tree).total
             = BigVal(parse_size(evaluated[i].threshold).bytes)
        /\ AlertsOf(evaluated[i].name) = {}
        /\ \E a \in AlertsOf(evaluated[j].name) : alerts[a].size - alerts[a].threshold = 1

\* C2: an error while checking one directory abandons only that check: it is
\* logged, alerts collected so far are kept, the directories after it are
\* still evaluated, and the run ends with exit status 0.
C2_ErrorsContained ==
    /\ \A i \in 1..Len(evaluated) :
          /\ evaluated[i].outcome = "alert" => AlertsOf(evaluated[i].name) # {}
          /\ evaluated[i].outcome = "error" => ErrorsAbout(evaluated[i].name) # {}
    /\ (Loaded /\ pc # "check") => Len(evaluated) = Len(config[1].directories)
    /\ (Loaded /\ pc = "exited") => exitStatus = <<0>>

\* the first check failed, the second was still evaluated and raised an
\* alert, and the run ended with status 0
C2_Witness ==
    /\ pc = "exited"
    /\ exitStatus = <<0>>
    /\ Len(evaluated) = 2
    /\ evaluated[1].outcome = "error"
    /\ evaluated[2].outcome = "alert"
    /\ Len(alerts) = 1

IsAlerted(e) == e.outcome = "alert"

\* C3: send_alerts is entered at most once and only after every configured
\* check has been evaluated; one email is attempted when there are alerts
\* and none otherwise; its entries are the alerted directories, all of them
\* and only them, in order.
C3_OneEmailAfterAllChecks ==
    /\ sendAlertsCalls <= 1
    /\ sendEmailCalls <= 1
    /\ Cardinality(Ops("send_message")) <= 1
    /\ sendAlertsCalls > 0 =>
          /\ Loaded
          /\ Len(evaluated) = Len(config[1].directories)
          /\ alerts # <<>>
    /\ (Loaded /\ pc = "exited") => (sendEmailCalls = 1 <=> alerts # <<>>)
    /\ (mail = <<>>) <=> (sendEmailCalls = 0)
    /\ mail # <<>> =>
          LET alerted == SelectSeq(evaluated, IsAlerted)
          IN  /\ Len(mail[1].entries) = Len(alerted)
              /\ \A k \in 1..Len(alerted) : mail[1].entries[k].name = alerted[k].name

\* two directories, one over its threshold and one not: one alert, one email
\* transmitted, covering the exceeding directory alone
C3_Witness ==
    /\ pc = "exited"
    /\ Len(evaluated) = 2
    /\ \E i, j \in 1..2 : evaluated[i].outcome = "alert" /\ evaluated[j].outcome = "ok"
    /\ Len(alerts) = 1
    /\ sendEmailCalls = 1
    /\ Len(mail[1].entries) = 1
    /\ \E k \in Ops("send_message") : smtpLog[k].ok

\* the configuration source is unreadable, malformed, or lacks a required key
Defective(file) ==
    \/ ~file.readable
    \/ ~file.wellformed
    \/ \E i \in 1..Len(file.directories) :
          "path" \notin file.directories[i].keys \/ "threshold" \notin file.directories[i].keys
    \/ "email" \notin file.sections
    \/ "recipients" \notin file.email_keys
    \/ "smtp" \notin file.sections
    \/ \E k \in {"host", "port", "username", "password"} : k \notin file.smtp_keys

\* C4: with such a configuration source load_config fails and main exits
\* with status 1: no directory is checked and no email is sent.
C4_BadConfigExitsOne ==
    Defective(cfgfile[1]) =>
        /\ ~Loaded
        /\ evaluated = <<>> /\ idx = 0 /\ alerts = <<>>
        /\ sendAlertsCalls = 0 /\ sendEmailCalls = 0 /\ smtpLog = <<>>
        /\ pc \in {"start", "exited"}
        /\ pc = "exited" => exitStatus = <<1>>

\* a readable, well-formed file with directory sections but no smtp password
\* has been loaded and the process has exited with status 1
C4_Witness ==
    /\ pc = "exited"
    /\ exitStatus = <<1>>
    /\ cfgfile[1].readable /\ cfgfile[1].wellformed
    /\ Len(cfgfile[1].directories) > 0
    /\ "password" \notin cfgfile[1].smtp_keys

\* C5: a failure of any delivery step is logged, is not retried (one
\* connection attempt, nothing but the release after the failed step), stays
\* inside send_alerts, and the run still ends with exit status 0.
C5_DeliveryFailureContained ==
    /\ Cardinality(Ops("connect")) <= 1
    /\ \A k \in 1..Len(smtpLog) :
          ~smtpLog[k].ok =>
              /\ smtp.failed
              /\ \A m \in (k + 1)..Len(smtpLog) : smtpLog[m].op = "close"
    /\ (smtp.failed /\ smtp.at = "done") =>
          /\ \E k \in 1..Len(log) : /\ log[k].level = "ERROR"
                                    /\ log[k].event = "Failed to send email notification"
          /\ pc \in {"finish", "exited"}
    /\ (smtp.failed /\ pc = "exited") => exitStatus = <<0>>

\* the transmission failed after connect, and the run ended with status 0
C5_Witness ==
    /\ pc = "exited"
    /\ exitStatus = <<0>>
    /\ smtp.failed
    /\ \E k \in Ops("send_message") : ~smtpLog[k].ok

\* C7 (as claimed): when the traversal of the tree itself fails -- the root is
\* gone or unreadable when the walk starts -- get_directory_size fails, the
\* check is abandoned with a logged error, and no size is compared.
C7_TraversalFailureAbandonsCheck ==
    \A i \in 1..Len(evaluated) :
        (evaluated[i].fs.exists /\ ~evaluated[i].fs.tree.dirs[1].listable) =>
            /\ evaluated[i].outcome = "error"
            /\ ErrorsAbout(evaluated[i].name) # {}

Rank(op) ==
    CASE op = "connect"      -> 1
      [] op = "starttls"     -> 2
      [] op = "login"        -> 3
      [] op = "send_message" -> 4
      [] op = "close"        -> 5

TlsEnabled  == "use_tls" \in cfgfile[1].smtp_keys /\ cfgfile[1].use_tls = "True"
Credentials == cfgfile[1].username # "" /\ cfgfile[1].password # ""

DoneBefore(op, k) == \E j \in 1..(k - 1) : smtpLog[j].op = op /\ smtpLog[j].ok

\* C10: on one connection send_email connects, upgrades to TLS only if TLS is
\* enabled, authenticates only if username and password are both non-empty,
\* transmits one message to every configured recipient, and releases the
\* connection; never authentication before a required TLS upgrade, never
\* transmission before a required authentication, release on success and on
\* failure.
C10_DeliveryOrder ==
    /\ \A k, m \in 1..Len(smtpLog) : k < m => Rank(smtpLog[k].op) < Rank(smtpLog[m].op)
    /\ smtpLog # <<>> => smtpLog[1].op = "connect"
    /\ \A k \in 1..Len(smtpLog) :
          /\ k > 1 => DoneBefore("connect", k)
          /\ smtpLog[k].op = "starttls" => TlsEnabled
          /\ smtpLog[k].op = "login" =>
                /\ Credentials
                /\ TlsEnabled => DoneBefore("starttls", k)
          /\ smtpLog[k].op = "send_message" =>
                /\ TlsEnabled => DoneBefore("starttls", k)
                /\ Credentials => DoneBefore("login", k)
                /\ smtpLog[k].to = cfgfile[1].recipients
    /\ smtp.connected <=> (smtp.at \in {"session", "exit_with"})
    /\ (smtp.at \in {"return", "raise", "done"} /\ (\E k \in Ops("connect") : smtpLog[k].ok))
          => smtpLog[Len(smtpLog)].op = "close"

\* a delivery with TLS and credentials ran through all five operations
C10_Witness ==
    /\ smtp.at = "done"
    /\ Len(smtpLog) = 5
    /\ \A k \in 1..5 : smtpLog[k].ok
    /\ Len(smtpLog[4].to) = 2

====
